---- MODULE Spec2Model ----
(***************************************************************************)
(* One SOCKS5 session of src/src/socks5.rs: the credential store of Proxy, *)
(* handle_connection (method negotiation, username/password               *)
(* sub-negotiation), make_proxy (request parsing, upstream connect, reply) *)
(* and the two bidirectional_streaming copy loops.                         *)
(*                                                                         *)
(* A receive buffer `[u8; N] = [0; N]` filled by one socket.read is kept   *)
(* as the sequence of the bytes that read returned; At gives the byte at a *)
(* 0-based index of the zero-initialised array, so an index past the bytes *)
(* received reads 0, exactly as the array does.  Every await is the end of *)
(* one action: an action is a socket operation together with the           *)
(* synchronous code that follows it up to the next await.                  *)
(*                                                                         *)
(* A read returns Err, Ok(0) at the end of the stream, or any non-empty    *)
(* prefix of the unread bytes that fits the buffer.  A write of the few    *)
(* bytes of a reply transfers all of them or returns Err.  A panic         *)
(* (slice out of range, unwrap of an Err) ends the task: pc = "panicked".  *)
(* The task that returns or panics drops its sockets, which closes them.   *)
(***************************************************************************)
EXTENDS Integers, Sequences, FiniteSets, TLC

VARIABLES
    auth_methods,   \* Proxy.auth_methods: the methods the server enables
    users,          \* Proxy.users: HashMap<String, String>
    pc,             \* position of the connection task
    exit,           \* the place where the connection task ended
    cin,            \* bytes the client has sent and the server has not read
    cstage,         \* how many protocol messages the client has sent
    cclosed,        \* the client has shut down its sending side
    buf,            \* handle_connection's buf: bytes of its latest read
    request,        \* make_proxy's request: bytes of the header read
    address,        \* make_proxy's address: bytes of the address read
    method,         \* branch of the method selection taken
    auth,           \* authentication outcome
    wr,             \* socket.write calls on the client socket, in order
    reads,          \* successful reads of the handshake
    lookups,        \* get_user calls
    connects,       \* TcpStream::connect calls, in order
    upstream,       \* the upstream socket: "none", "connected" or "failed"
    c2s,            \* position of the client_to_server copy task
    s2c,            \* position of the server_to_client copy task
    copies,         \* chunks the two copy loops have read
    uin,            \* bytes the upstream peer has sent and the proxy has not read
    ustage,         \* how many payloads the upstream peer has sent
    uclosed,        \* the upstream peer has shut down its sending side
    c2s_buf,        \* client_to_server's &buf[..n]: the chunk it is writing
    s2c_buf,        \* server_to_client's &buf[..n]: the chunk it is writing
    c2s_rd,         \* all bytes client_to_server has read from the client socket
    s2c_rd,         \* all bytes server_to_client has read from the upstream socket
    up_wr,          \* all bytes written to the upstream socket
    cl_wr,          \* all bytes the relay has written to the client socket
    lock,           \* the task that holds the MutexGuard of users, 0 for none
    tasks           \* the connection tasks that share the Proxy, by what they
                    \* do with the store: position, username, what get_user returned

vars == <<auth_methods, users, pc, exit, cin, cstage, cclosed, buf, request,
          address, method, auth, wr, reads, lookups, connects, upstream, c2s,
          s2c, copies, uin, ustage, uclosed, c2s_buf, s2c_buf, c2s_rd, s2c_rd,
          up_wr, cl_wr, lock, tasks>>

(***************************************************************************)
(* Bounds of the model.                                                    *)
(***************************************************************************)
MaxMethods == 2     \* longest method list a client offers
MaxBacklog == 1     \* unread bytes above which the client holds its next message
MaxShort == 3       \* longest short read (a read also may return all it can)
MaxRelay == 2       \* chunks the copy loops read before the peers close
LongUser == 200     \* length of the long username
LongPass == 100     \* length of the long password
MaxChunkShort == 1  \* longest short read of a copy loop
MaxTasks == 2       \* connection tasks that share the store
PayloadExtra == 2   \* bytes by which the long payload exceeds the relay buffer

(***************************************************************************)
(* Program constants.                                                      *)
(***************************************************************************)
BufSize == 258
RequestSize == 4
AddressSize == 6
RelayBufSize == 1024
NoAuth == 0
UsernamePassword == 2
IPv4 == 1

Min(a, b) == IF a < b THEN a ELSE b

Fill(n, x) == [i \in 1..n |-> x]

\* byte at 0-based index i of a zero-initialised array that holds b
At(b, i) == IF i < Len(b) THEN b[i + 1] ELSE 0

\* &array[lo..hi] of a zero-initialised array that holds b (hi within the array)
Slice(b, lo, hi) == [j \in 1..(hi - lo) |-> At(b, lo + j - 1)]

Contains(s, x) == \E i \in 1..Len(s) : s[i] = x

to_u8(m) == m

\* a version check that lets version 4 through
check_valid_version_4(version) == version \in {4, 5}

check_valid_version(version) == 5 = version

check_valid_auth_method(m) == m \in auth_methods

get_user(username) ==
    IF username \in DOMAIN users THEN <<"Some", users[username]>>
    ELSE <<"None", <<>>>>

\* the two port bytes taken low byte first
u16_from_le_bytes(hi, lo) == lo * 256 + hi

u16_from_be_bytes(hi, lo) == hi * 256 + lo

(***************************************************************************)
(* String::from_utf8: the bytes are kept, after validation as UTF-8.       *)
(***************************************************************************)
IsCont(b) == b >= 128 /\ b <= 191

\* bytes of the character that a lead byte starts; 0 when no character starts with it
Utf8Width(b) ==
    IF b < 128 THEN 1
    ELSE IF b >= 194 /\ b <= 223 THEN 2
    ELSE IF b >= 224 /\ b <= 239 THEN 3
    ELSE IF b >= 240 /\ b <= 244 THEN 4
    ELSE 0

\* the character that starts at s[i] is well formed and is followed by a lead byte
Utf8CharAt(s, i) ==
    LET b == s[i]
        w == Utf8Width(b)
    IN  /\ w > 0
        /\ i + w - 1 <= Len(s)
        /\ \A k \in 1..(w - 1) : IsCont(s[i + k])
        /\ (i + w <= Len(s) => ~IsCont(s[i + w]))
        /\ (b = 224 => s[i + 1] >= 160)
        /\ (b = 237 => s[i + 1] <= 159)
        /\ (b = 240 => s[i + 1] >= 144)
        /\ (b = 244 => s[i + 1] <= 143)

from_utf8_ok(s) ==
    /\ (Len(s) > 0 => ~IsCont(s[1]))
    /\ \A i \in 1..Len(s) : ~IsCont(s[i]) => Utf8CharAt(s, i)

(***************************************************************************)
(* What the peers send.                                                    *)
(***************************************************************************)
MethodBytes == {0, 1, 2}

RECURSIVE SeqsUpTo(_, _)
SeqsUpTo(S, n) ==
    IF n = 0 THEN {<<>>}
    ELSE LET shorter == SeqsUpTo(S, n - 1)
         IN  shorter \cup {Append(s, x) : s \in shorter, x \in S}

NegMsgs == {<<v, Len(ms)>> \o ms : v \in {4, 5}, ms \in SeqsUpTo(MethodBytes, MaxMethods)}

\* the accounts add_user is called with: "a"/"x" and a long name and password
Accounts == {<<<<97>>, <<120>>>>, <<Fill(LongUser, 97), Fill(LongPass, 120)>>}
ClientNames == {a[1] : a \in Accounts} \cup {<<98>>, <<255>>}
ClientPasswords == {a[2] : a \in Accounts} \cup {<<121>>}

AuthMsgs == {<<1, Len(u)>> \o u \o <<Len(p)>> \o p : u \in ClientNames, p \in ClientPasswords}

ReqHdrs == {<<v, cmd, 0, atyp>> : v \in {4, 5}, cmd \in {1, 2}, atyp \in {1, 2, 3, 4}}

AddrMsgs == {<<93, 184, 216, 34, 0, 80>>, <<10, 0, 0, 1, 1, 187>>}

\* negotiation messages that declare more methods than they carry
TruncNegMsgs == {<<5, n>> \o ms : n \in {3, 255}, ms \in SeqsUpTo(MethodBytes, 1)}

\* what the client sends to the target
Payloads == {<<11, 12, 13>>}

\* what the target sends to the client
UpPayloads == {<<211, 212>>}

\* a payload of more bytes than a copy loop's buffer holds
LongPayload(first) ==
    [i \in 1..(RelayBufSize + PayloadExtra) |-> first + (i % 100)]

ClientMsgs(stage) ==
    CASE stage = 0 -> NegMsgs \cup TruncNegMsgs
      [] stage = 1 -> AuthMsgs
      [] stage = 2 -> ReqHdrs
      [] stage = 3 -> AddrMsgs
      [] OTHER -> Payloads

\* socket.read(&mut [u8; cap]): Err, Ok(0) at end of stream, or Ok(k) with
\* the next k bytes, 1 <= k <= cap
ReadSizes(cap) ==
    {k \in 1..Min(Len(cin), cap) : k <= MaxShort \/ k = Min(Len(cin), cap)}

ReadOutcomes(cap) ==
    {[ok |-> FALSE, data |-> <<>>, rest |-> cin]}
    \cup {[ok |-> TRUE, data |-> SubSeq(cin, 1, k),
           rest |-> SubSeq(cin, k + 1, Len(cin))] : k \in ReadSizes(cap)}
    \cup (IF cin = <<>> /\ cclosed
          THEN {[ok |-> TRUE, data |-> <<>>, rest |-> <<>>]} ELSE {})

\* reader.read(&mut buf) of a copy loop on a stream: an error, up to cap of
\* the bytes that have arrived, or 0 bytes once the peer has closed
ChunkSizes(stream, cap) ==
    {k \in 1..Min(Len(stream), cap) :
        k <= MaxChunkShort \/ k = Min(Len(stream), cap)}

ChunkOutcomes(stream, closed, cap) ==
    {[ok |-> FALSE, data |-> <<>>, rest |-> stream]}
    \cup {[ok |-> TRUE, data |-> SubSeq(stream, 1, k),
           rest |-> SubSeq(stream, k + 1, Len(stream))] :
              k \in ChunkSizes(stream, cap)}
    \cup (IF stream = <<>> /\ closed
          THEN {[ok |-> TRUE, data |-> <<>>, rest |-> <<>>]} ELSE {})

\* one socket.write on the client socket: the bytes passed and whether it returned Ok
W(bytes, ok) == [bytes |-> bytes, ok |-> ok]

\* the connection tasks start_proxy has spawned with a clone of the Arc<Proxy>
Tasks == 1..MaxTasks

Init ==
    /\ auth_methods \in SUBSET {NoAuth, UsernamePassword}
    /\ users = <<>>
    /\ pc = "config"
    /\ exit = "running"
    /\ cin = <<>>
    /\ cstage = 0
    /\ cclosed = FALSE
    /\ buf = <<>>
    /\ request = <<>>
    /\ address = <<>>
    /\ method = "none"
    /\ auth = "pending"
    /\ wr = <<>>
    /\ reads = 0
    /\ lookups = 0
    /\ connects = <<>>
    /\ upstream = "none"
    /\ c2s = "idle"
    /\ s2c = "idle"
    /\ copies = 0
    /\ uin = <<>>
    /\ ustage = 0
    /\ uclosed = FALSE
    /\ c2s_buf = <<>>
    /\ s2c_buf = <<>>
    /\ c2s_rd = <<>>
    /\ s2c_rd = <<>>
    /\ up_wr = <<>>
    /\ cl_wr = <<>>
    /\ lock = 0
    /\ tasks = [t \in Tasks |-> [pc |-> "idle", name |-> <<>>, seen |-> <<"pending">>]]

session == <<pc, exit, buf, request, address, method, auth, wr, reads,
             lookups, connects, upstream, c2s, s2c, copies, uin, ustage,
             uclosed, c2s_buf, s2c_buf, c2s_rd, s2c_rd, up_wr, cl_wr>>
client == <<cin, cstage, cclosed>>
relay == <<c2s, s2c, copies, c2s_buf, s2c_buf, c2s_rd, s2c_rd, up_wr, cl_wr>>
peer == <<uin, ustage, uclosed>>
store == <<lock, tasks>>

(***************************************************************************)
(* Proxy: the credential store.  add_user and remove_user take &mut self,  *)
(* so they run before the Proxy is put in the Arc that start_proxy shares  *)
(* with the connection tasks.                                              *)
(***************************************************************************)
add_user(username, password) ==
    /\ pc = "config"
    /\ users' = [u \in DOMAIN users \cup {username} |->
                    IF u = username THEN password ELSE users[u]]
    /\ UNCHANGED <<store, auth_methods, session, client>>

remove_user(username) ==
    /\ pc = "config"
    /\ username \in DOMAIN users
    /\ users' = [u \in DOMAIN users \ {username} |-> users[u]]
    /\ UNCHANGED <<store, auth_methods, session, client>>

\* start_proxy accepts the connection and spawns handle_connection
start_proxy ==
    /\ pc = "config"
    /\ pc' = "read_methods"
    /\ UNCHANGED <<store, auth_methods, users, client, exit, buf, request, address,
                   method, auth, wr, reads, lookups, connects, upstream, relay, peer>>

(***************************************************************************)
(* The client: it sends the messages of the protocol in order, the next    *)
(* one as soon as at most MaxBacklog bytes are unread, and may close.      *)
(***************************************************************************)
Ended == pc \in {"done", "panicked"}

ClientSend ==
    /\ pc # "config"
    /\ ~Ended
    /\ ~cclosed
    /\ cstage < 5
    /\ Len(cin) <= MaxBacklog
    /\ \E m \in ClientMsgs(cstage) : cin' = cin \o m
    /\ cstage' = cstage + 1
    /\ UNCHANGED <<store, auth_methods, users, session, cclosed>>

ClientClose ==
    /\ pc # "config"
    /\ ~Ended
    /\ ~cclosed
    /\ cclosed' = TRUE
    /\ UNCHANGED <<store, auth_methods, users, session, cin, cstage>>

(***************************************************************************)
(* handle_connection                                                       *)
(***************************************************************************)
\* a selection that prefers NoAuth to UsernamePassword
SelectMethod_NoAuthFirst(b) ==
    LET nmethod == At(b, 1)
        methods == Slice(b, 2, 2 + nmethod)
    IN  IF Contains(methods, to_u8(NoAuth)) THEN "NoAuth"
        ELSE IF Contains(methods, to_u8(UsernamePassword))
                /\ check_valid_auth_method(UsernamePassword)
        THEN "UsernamePassword"
        ELSE "NotAcceptable"

\* lines 164-177 and 297-303: the branch taken on the bytes of the first read
SelectMethod(b) ==
    LET nmethod == At(b, 1)
        methods == Slice(b, 2, 2 + nmethod)
    IN  IF Contains(methods, to_u8(UsernamePassword))
           /\ check_valid_auth_method(UsernamePassword)
        THEN "UsernamePassword"
        ELSE IF Contains(methods, to_u8(NoAuth)) THEN "NoAuth"
        ELSE "NotAcceptable"

\* lines 154-177, 297-308: the first read and the method selection
HC_ReadMethods ==
    /\ pc = "read_methods"
    /\ \E r \in ReadOutcomes(BufSize) :
        /\ cin' = r.rest
        /\ IF ~r.ok
           THEN /\ pc' = "done"
                /\ exit' = "read_error"
                /\ UNCHANGED <<buf, reads, method>>
           ELSE /\ buf' = r.data
                /\ reads' = reads + 1
                /\ IF ~check_valid_version(At(r.data, 0))
                   THEN /\ pc' = "done"
                        /\ exit' = "version"
                        /\ UNCHANGED method
                   ELSE IF 2 + At(r.data, 1) > BufSize
                   THEN /\ pc' = "panicked"
                        /\ exit' = "panic"
                        /\ UNCHANGED method
                   ELSE /\ method' = SelectMethod(r.data)
                        /\ pc' = IF method' = "UsernamePassword"
                                 THEN "write_method" ELSE "done"
                        /\ exit' = IF method' = "UsernamePassword" THEN exit
                                   ELSE IF method' = "NoAuth" THEN "no_auth"
                                   ELSE "not_acceptable"
    /\ UNCHANGED <<store, auth_methods, users, cstage, cclosed, request, address,
                   auth, wr, lookups, connects, upstream, relay, peer>>

\* lines 181-193: the method reply; a failed write ends the task
HC_WriteMethod ==
    /\ pc = "write_method"
    /\ \E ok \in BOOLEAN :
        /\ wr' = Append(wr, W(<<5, to_u8(UsernamePassword)>>, ok))
        /\ pc' = IF ok THEN "read_auth" ELSE "done"
        /\ exit' = IF ok THEN exit ELSE "write_error"
    /\ UNCHANGED <<store, auth_methods, users, client, buf, request, address, method,
                   auth, reads, lookups, connects, upstream, relay, peer>>

\* a lookup that does not compare the password
CredentialsAccepted_AnyPassword(username, password) ==
    get_user(username)[1] = "Some"

\* lines 223-227: the store has the username, with this password
CredentialsAccepted(username, password) ==
    /\ get_user(username)[1] = "Some"
    /\ get_user(username)[2] = password

\* lines 196-227, 247, 269, 293: read the username/password message and look it up
HC_ReadAuth ==
    /\ pc = "read_auth"
    /\ \E r \in ReadOutcomes(BufSize) :
        /\ cin' = r.rest
        /\ IF ~r.ok
           THEN /\ pc' = "done"
                /\ exit' = "read_error"
                /\ UNCHANGED <<buf, reads, lookups, auth>>
           ELSE LET b == r.data
                    username_length == At(b, 1)
                    password_length == At(b, 2 + username_length)
                    username == Slice(b, 2, 2 + username_length)
                    password == Slice(b, 3 + username_length,
                                      3 + username_length + password_length)
                IN  /\ buf' = b
                    /\ reads' = reads + 1
                    /\ IF \/ 3 + username_length + password_length > BufSize
                          \/ ~from_utf8_ok(username)
                          \/ ~from_utf8_ok(password)
                       THEN /\ pc' = "panicked"
                            /\ exit' = "panic"
                            /\ UNCHANGED <<lookups, auth>>
                       ELSE /\ lookups' = lookups + 1
                            /\ UNCHANGED exit
                            /\ IF CredentialsAccepted(username, password)
                               THEN auth' = "succeeded" /\ pc' = "write_auth_ok"
                               ELSE auth' = "failed" /\ pc' = "write_auth_failed"
    /\ UNCHANGED <<store, auth_methods, users, cstage, cclosed, request, address,
                   method, wr, connects, upstream, relay, peer>>

\* lines 229-246: the success reply, then make_proxy whatever the write returned
HC_WriteAuthOk ==
    /\ pc = "write_auth_ok"
    /\ \E ok \in BOOLEAN : wr' = Append(wr, W(<<1, 0>>, ok))
    /\ pc' = "read_request"
    /\ UNCHANGED <<store, auth_methods, users, client, exit, buf, request, address,
                   method, auth, reads, lookups, connects, upstream, relay, peer>>

\* lines 248-266 and 273-289: the failure reply, then return
HC_WriteAuthFailed ==
    /\ pc = "write_auth_failed"
    /\ \E ok \in BOOLEAN : wr' = Append(wr, W(<<1, 1>>, ok))
    /\ pc' = "done"
    /\ exit' = "auth_failed"
    /\ UNCHANGED <<store, auth_methods, users, client, buf, request, address, method,
                   auth, reads, lookups, connects, upstream, relay, peer>>

(***************************************************************************)
(* make_proxy                                                              *)
(***************************************************************************)
\* a header check that takes every address type as IPv4
RequestNext_AnyAtyp(req) ==
    IF ~check_valid_version(At(req, 0)) THEN "version"
    ELSE "read_address"

\* lines 327-335, 411: where make_proxy goes on the header bytes read
RequestNext(req) ==
    IF ~check_valid_version(At(req, 0)) THEN "version"
    ELSE IF At(req, 3) = IPv4 THEN "read_address"
    ELSE "address_type"

\* lines 320-335, 411-416: read the request header
MP_ReadRequest ==
    /\ pc = "read_request"
    /\ \E r \in ReadOutcomes(RequestSize) :
        /\ cin' = r.rest
        /\ IF ~r.ok
           THEN /\ pc' = "done"
                /\ exit' = "read_error"
                /\ UNCHANGED <<request, reads>>
           ELSE /\ request' = r.data
                /\ reads' = reads + 1
                /\ IF RequestNext(r.data) = "read_address"
                   THEN pc' = "read_address" /\ UNCHANGED exit
                   ELSE pc' = "done" /\ exit' = RequestNext(r.data)
    /\ UNCHANGED <<store, auth_methods, users, cstage, cclosed, buf, address, method,
                   auth, wr, lookups, connects, upstream, relay, peer>>

\* lines 339-349, 407-409: read the address and the port
MP_ReadAddress ==
    /\ pc = "read_address"
    /\ \E r \in ReadOutcomes(AddressSize) :
        /\ cin' = r.rest
        /\ IF ~r.ok
           THEN /\ pc' = "done"
                /\ exit' = "read_error"
                /\ UNCHANGED <<address, reads>>
           ELSE /\ address' = r.data
                /\ reads' = reads + 1
                /\ pc' = "connect"
                /\ UNCHANGED exit
    /\ UNCHANGED <<store, auth_methods, users, cstage, cclosed, buf, request, method,
                   auth, wr, lookups, connects, upstream, relay, peer>>

\* lines 345-360: the target "{}.{}.{}.{}:{}" of the connect
Target(a) ==
    [ip |-> <<At(a, 0), At(a, 1), At(a, 2), At(a, 3)>>,
     port |-> u16_from_be_bytes(At(a, 4), At(a, 5))]

\* lines 352-362: TcpStream::connect(...).await.unwrap()
MP_Connect ==
    /\ pc = "connect"
    /\ connects' = Append(connects, Target(address))
    /\ \E ok \in BOOLEAN :
        /\ upstream' = IF ok THEN "connected" ELSE "failed"
        /\ pc' = IF ok THEN "write_reply" ELSE "panicked"
        /\ exit' = IF ok THEN exit ELSE "panic"
    /\ UNCHANGED <<store, auth_methods, users, client, buf, request, address, method,
                   auth, wr, reads, lookups, relay, peer>>

\* lines 366-374: the bytes of the reply
Reply(a) ==
    <<5, 0, 0, 1, At(a, 0), At(a, 1), At(a, 2), At(a, 3), At(a, 4), At(a, 5)>>

\* lines 365-400: write the reply, split the sockets, spawn the two copy tasks
MP_WriteReply ==
    /\ pc = "write_reply"
    /\ \E ok \in BOOLEAN : wr' = Append(wr, W(Reply(address), ok))
    /\ pc' = "join"
    /\ c2s' = "read"
    /\ s2c' = "read"
    /\ UNCHANGED <<store, auth_methods, users, client, exit, buf, request, address,
                   method, auth, reads, lookups, connects, upstream, copies,
                   c2s_buf, s2c_buf, c2s_rd, s2c_rd, up_wr, cl_wr, peer>>

(***************************************************************************)
(* The upstream peer, once connected: it may send a payload and may close. *)
(***************************************************************************)
UpstreamSend ==
    /\ upstream = "connected"
    /\ ~Ended
    /\ ~uclosed
    /\ ustage < 1
    /\ \E m \in UpPayloads : uin' = uin \o m
    /\ ustage' = ustage + 1
    /\ UNCHANGED <<store, auth_methods, users, client, pc, exit, buf, request,
                   address, method, auth, wr, reads, lookups, connects,
                   upstream, relay, uclosed>>

UpstreamClose ==
    /\ upstream = "connected"
    /\ ~Ended
    /\ ~uclosed
    /\ uclosed' = TRUE
    /\ UNCHANGED <<store, auth_methods, users, client, pc, exit, buf, request,
                   address, method, auth, wr, reads, lookups, connects,
                   upstream, relay, uin, ustage>>

\* the client sends the target more than one relay buffer of bytes
ClientSendLong ==
    /\ ~Ended
    /\ ~cclosed
    /\ cstage = 4
    /\ Len(cin) <= MaxBacklog
    /\ cin' = cin \o LongPayload(0)
    /\ cstage' = cstage + 1
    /\ UNCHANGED <<store, auth_methods, users, session, cclosed>>

\* the target sends the client more than one relay buffer of bytes
UpstreamSendLong ==
    /\ upstream = "connected"
    /\ ~Ended
    /\ ~uclosed
    /\ ustage < 1
    /\ uin' = uin \o LongPayload(100)
    /\ ustage' = ustage + 1
    /\ UNCHANGED <<store, auth_methods, users, client, pc, exit, buf, request,
                   address, method, auth, wr, reads, lookups, connects,
                   upstream, relay, uclosed>>

(***************************************************************************)
(* bidirectional_streaming: client_to_server reads the client socket and   *)
(* writes the upstream socket, server_to_client reads the upstream socket  *)
(* and writes the client socket.  write_all writes the whole chunk, or     *)
(* fails after it has written some of it.                                  *)
(***************************************************************************)
\* a write that passes the whole buffer instead of the n bytes read
RelayChunk_WholeBuf(b) == Slice(b, 0, RelayBufSize)

\* line 109: &buf[..n], the n bytes the read returned
RelayChunk(b) == Slice(b, 0, Len(b))

\* the bytes a failed write_all of chunk may have written before the error
PartlyWritten(chunk) == {SubSeq(chunk, 1, j) : j \in {0, Len(chunk) - 1}}

\* line 106 of client_to_server: a chunk, end of stream, or an error
C2S_Read ==
    /\ c2s = "read"
    /\ \E r \in ChunkOutcomes(cin, cclosed, RelayBufSize) :
        /\ cin' = r.rest
        /\ IF r.ok /\ r.data # <<>>
           THEN /\ copies < MaxRelay
                /\ copies' = copies + 1
                /\ c2s_buf' = r.data
                /\ c2s_rd' = c2s_rd \o r.data
                /\ c2s' = "write"
           ELSE /\ c2s' = "stopped"
                /\ UNCHANGED <<copies, c2s_buf, c2s_rd>>
    /\ UNCHANGED <<store, auth_methods, users, cstage, cclosed, pc, exit, buf,
                   request, address, method, auth, wr, reads, lookups,
                   connects, upstream, s2c, s2c_buf, s2c_rd, up_wr, cl_wr,
                   peer>>

\* line 109 of client_to_server
C2S_Write ==
    /\ c2s = "write"
    /\ \/ /\ up_wr' = up_wr \o RelayChunk(c2s_buf)
          /\ c2s' = "read"
       \/ /\ \E w \in PartlyWritten(RelayChunk(c2s_buf)) : up_wr' = up_wr \o w
          /\ c2s' = "stopped"
    /\ c2s_buf' = <<>>
    /\ UNCHANGED <<store, auth_methods, users, client, pc, exit, buf, request,
                   address, method, auth, wr, reads, lookups, connects,
                   upstream, s2c, copies, s2c_buf, c2s_rd, s2c_rd, cl_wr,
                   peer>>

\* line 106 of server_to_client: a chunk, end of stream, or an error
S2C_Read ==
    /\ s2c = "read"
    /\ \E r \in ChunkOutcomes(uin, uclosed, RelayBufSize) :
        /\ uin' = r.rest
        /\ IF r.ok /\ r.data # <<>>
           THEN /\ copies < MaxRelay
                /\ copies' = copies + 1
                /\ s2c_buf' = r.data
                /\ s2c_rd' = s2c_rd \o r.data
                /\ s2c' = "write"
           ELSE /\ s2c' = "stopped"
                /\ UNCHANGED <<copies, s2c_buf, s2c_rd>>
    /\ UNCHANGED <<store, auth_methods, users, client, pc, exit, buf, request,
                   address, method, auth, wr, reads, lookups, connects,
                   upstream, c2s, c2s_buf, c2s_rd, up_wr, cl_wr, ustage,
                   uclosed>>

\* line 109 of server_to_client
S2C_Write ==
    /\ s2c = "write"
    /\ \/ /\ cl_wr' = cl_wr \o RelayChunk(s2c_buf)
          /\ s2c' = "read"
       \/ /\ \E w \in PartlyWritten(RelayChunk(s2c_buf)) : cl_wr' = cl_wr \o w
          /\ s2c' = "stopped"
    /\ s2c_buf' = <<>>
    /\ UNCHANGED <<store, auth_methods, users, client, pc, exit, buf, request,
                   address, method, auth, wr, reads, lookups, connects,
                   upstream, c2s, copies, c2s_buf, c2s_rd, s2c_rd, up_wr,
                   peer>>

\* a join that returns as soon as one of the two tasks has finished
JoinReady_Either == c2s = "stopped" \/ s2c = "stopped"

\* lines 402-405: try_join! on the two JoinHandles returns when both tasks
\* have finished (a JoinHandle is an Err only for a task that panicked, and
\* bidirectional_streaming has no panic)
JoinReady == c2s = "stopped" /\ s2c = "stopped"

\* lines 402-405: try_join! of the two tasks
MP_Join ==
    /\ pc = "join"
    /\ JoinReady
    /\ pc' = "done"
    /\ exit' = "joined"
    /\ UNCHANGED <<store, auth_methods, users, client, buf, request, address, method,
                   auth, wr, reads, lookups, connects, upstream, relay, peer>>

Next ==
    \/ \E a \in Accounts : add_user(a[1], a[2])
    \/ \E a \in Accounts : remove_user(a[1])
    \/ start_proxy
    \/ ClientSend
    \/ ClientClose
    \/ HC_ReadMethods
    \/ HC_WriteMethod
    \/ HC_ReadAuth
    \/ HC_WriteAuthOk
    \/ HC_WriteAuthFailed
    \/ MP_ReadRequest
    \/ MP_ReadAddress
    \/ MP_Connect
    \/ MP_WriteReply
    \/ C2S_Read
    \/ C2S_Write
    \/ S2C_Read
    \/ S2C_Write
    \/ MP_Join
    \/ UpstreamSend
    \/ UpstreamClose

Spec == Init /\ [][Next]_vars

(***************************************************************************)
(* The copy loops on their own: the state in which make_proxy has spawned  *)
(* client_to_server and server_to_client after a handshake in which every  *)
(* step succeeded, and from there the steps of the two loops, of the join  *)
(* and of the two peers, which here also send payloads longer than the     *)
(* loops' buffer.                                                          *)
(***************************************************************************)
RelayInit ==
    /\ auth_methods = {UsernamePassword}
    /\ users = [u \in {<<97>>} |-> <<120>>]
    /\ pc = "join"
    /\ exit = "running"
    /\ cin = <<>>
    /\ cstage = 4
    /\ cclosed = FALSE
    /\ buf = <<1, 1, 97, 1, 120>>
    /\ request = <<5, 1, 0, IPv4>>
    /\ address \in AddrMsgs
    /\ method = "UsernamePassword"
    /\ auth = "succeeded"
    /\ wr = <<W(<<5, 2>>, TRUE), W(<<1, 0>>, TRUE), W(Reply(address), TRUE)>>
    /\ reads = 4
    /\ lookups = 1
    /\ connects = <<Target(address)>>
    /\ upstream = "connected"
    /\ c2s = "read"
    /\ s2c = "read"
    /\ copies = 0
    /\ uin = <<>>
    /\ ustage = 0
    /\ uclosed = FALSE
    /\ c2s_buf = <<>>
    /\ s2c_buf = <<>>
    /\ c2s_rd = <<>>
    /\ s2c_rd = <<>>
    /\ up_wr = <<>>
    /\ cl_wr = <<>>
    /\ lock = 0
    /\ tasks = [t \in Tasks |-> [pc |-> "idle", name |-> <<>>, seen |-> <<"pending">>]]

RelayNext ==
    \/ ClientSend
    \/ ClientSendLong
    \/ ClientClose
    \/ UpstreamSend
    \/ UpstreamSendLong
    \/ UpstreamClose
    \/ C2S_Read
    \/ C2S_Write
    \/ S2C_Read
    \/ S2C_Write
    \/ MP_Join

RelaySpec == RelayInit /\ [][RelayNext]_vars

(***************************************************************************)
(* What the runtime guarantees of the spawned tasks: a read returns once   *)
(* bytes or the end of the stream are there to be read, a write_all        *)
(* returns, and the join returns once both tasks have finished.  Nothing   *)
(* makes a peer send or close, and nothing makes a read fail.              *)
(***************************************************************************)
C2S_ReadReady == (cin # <<>> \/ cclosed) /\ C2S_Read

S2C_ReadReady == (uin # <<>> \/ uclosed) /\ S2C_Read

RelayFairness ==
    /\ WF_vars(C2S_ReadReady)
    /\ WF_vars(S2C_ReadReady)
    /\ WF_vars(C2S_Write)
    /\ WF_vars(S2C_Write)
    /\ WF_vars(MP_Join)

FairRelaySpec == RelayInit /\ [][RelayNext]_vars /\ RelayFairness

(***************************************************************************)
(* The claims.  While reads = 1 the buffer buf holds the negotiation       *)
(* message as the first read returned it; from reads = 2 on it holds the   *)
(* username/password message as the second read returned it; the third     *)
(* and fourth reads fill request and address.                              *)
(***************************************************************************)
\* the method bytes the client delivered among the nmethod it declared
Offered(b) == {b[i] : i \in 3..Min(Len(b), 2 + At(b, 1))}

\* the username and the password the message in b names
UserOf(b) == Slice(b, 2, 2 + At(b, 1))
PassOf(b) == Slice(b, 3 + At(b, 1), 3 + At(b, 1) + At(b, 2 + At(b, 1)))

Stored(username, password) ==
    username \in DOMAIN users /\ users[username] = password

C1_Pre ==
    /\ reads = 1
    /\ At(buf, 0) = 5
    /\ 2 \in Offered(buf)
    /\ 2 \in auth_methods

\* C1: when the negotiation message has version 5 and method 2 is offered by
\* the client and enabled on the server, the only bytes the server writes are
\* (5, 2), whatever the position of 2 in the list and whether or not NoAuth is
\* offered or enabled, and once they are written it reads the
\* username/password message; it ends before that only if that write failed.
C1_UsernamePasswordSelected ==
    C1_Pre =>
        /\ method = "UsernamePassword"
        /\ \/ pc = "write_method" /\ wr = <<>>
           \/ /\ wr = <<W(<<5, 2>>, TRUE)>>
              /\ pc = "read_auth" \/ (pc = "done" /\ exit = "read_error")
           \/ /\ wr = <<W(<<5, 2>>, FALSE)>>
              /\ pc = "done" /\ exit = "write_error"

\* method 2 in second place, NoAuth offered and enabled as well
C1_Witness ==
    /\ C1_Pre
    /\ buf = <<5, 2, 0, 2>>
    /\ auth_methods = {0, 2}
    /\ pc = "read_auth"
    /\ wr = <<W(<<5, 2>>, TRUE)>>

C2_Pre ==
    /\ reads = 1
    /\ At(buf, 0) = 5
    /\ 2 \notin Offered(buf) \cap auth_methods
    /\ 0 \in Offered(buf) \cap auth_methods

\* C2: when the negotiation message has version 5, method 2 is not both
\* offered and enabled and method 0 is, the server writes the reply (5, 0)
\* (and goes on to make_proxy): no such session ends without that reply.
C2_NoAuthReplied ==
    (C2_Pre /\ Ended) => (wr # <<>> /\ wr[1].bytes = <<5, 0>>)

C3_Pre ==
    /\ reads = 1
    /\ At(buf, 0) = 5
    /\ Offered(buf) \cap auth_methods \cap {0, 2} = {}

\* C3: when the negotiation message has version 5 and neither method 2 nor
\* method 0 is both offered and enabled, the server writes the reply (5, 255)
\* and closes: such a session ends with exactly that reply written.
C3_NotAcceptableReplied ==
    (C3_Pre /\ Ended) => (Len(wr) = 1 /\ wr[1].bytes = <<5, 255>>)

C4_Pre ==
    /\ reads = 1
    /\ At(buf, 0) # 5

\* C4: if the first byte of the negotiation message is not 5, the task has
\* ended, with nothing written to the client, no further read, no credential
\* looked up and no upstream connection attempted.
C4_BadVersionEndsSilently ==
    C4_Pre =>
        /\ pc = "done" /\ exit = "version"
        /\ wr = <<>>
        /\ request = <<>> /\ address = <<>>
        /\ lookups = 0
        /\ connects = <<>> /\ upstream = "none"
        /\ c2s = "idle" /\ s2c = "idle"

C4_Witness ==
    /\ C4_Pre
    /\ buf = <<4, 1, 2>>
    /\ auth_methods = {0, 2}
    /\ pc = "done"

\* the username and the password bytes received are text
C5_Pre ==
    /\ reads >= 2
    /\ from_utf8_ok(UserOf(buf))
    /\ from_utf8_ok(Slice(buf, 3 + At(buf, 1),
                          Min(3 + At(buf, 1) + At(buf, 2 + At(buf, 1)), BufSize)))

\* C5: for every store and every username and password the client sends,
\* the server writes exactly one auth reply: (1, 0) if and only if the store
\* maps the username to the password, and then make_proxy runs; otherwise
\* (1, 1), and then the task ends with no further read and no connect.
C5_OneAuthReply ==
    (C5_Pre /\ pc \notin {"write_auth_ok", "write_auth_failed"}) =>
        /\ Len(wr) >= 2
        /\ wr[2].bytes \in {<<1, 0>>, <<1, 1>>}
        /\ \A i \in 3..Len(wr) : wr[i].bytes[1] # 1
        /\ wr[2].bytes = <<1, 0>> <=> Stored(UserOf(buf), PassOf(buf))
        /\ wr[2].bytes = <<1, 1>> =>
              (pc = "done" /\ reads = 2 /\ connects = <<>>)

RequestBegun ==
    \/ pc \in {"read_request", "read_address", "connect", "write_reply", "join"}
    \/ reads >= 3
    \/ request # <<>>
    \/ address # <<>>
    \/ connects # <<>>
    \/ upstream # "none"
    \/ c2s # "idle"
    \/ s2c # "idle"

\* C6: request parsing has begun only if the negotiated method is NoAuth or
\* the authentication succeeded, that is the store maps the username read to
\* the password read and the reply (1, 0) was written; a session whose
\* credentials were rejected, or whose auth message was never read, has not
\* begun request parsing and has attempted no connect.
C6_RequestOnlyAfterAuth ==
    /\ RequestBegun =>
          \/ method = "NoAuth"
          \/ /\ auth = "succeeded"
             /\ reads >= 2
             /\ Stored(UserOf(buf), PassOf(buf))
             /\ Len(wr) >= 2 /\ wr[2].bytes = <<1, 0>>
    /\ (method = "UsernamePassword" /\ (auth = "failed" \/ reads < 2)) =>
          ~RequestBegun

C6_Witness ==
    /\ connects # <<>>
    /\ auth = "succeeded"
    /\ UserOf(buf) = <<97>>
    /\ PassOf(buf) = <<120>>

\* C7: an upstream connection has been attempted only if the request header
\* read has version 5 and a supported address type and the complete address
\* and port (6 bytes for type 1) have been read.
C7_UpstreamOnlyAfterParse ==
    (connects # <<>> \/ upstream # "none") =>
        /\ Len(request) = 4
        /\ request[1] = 5
        /\ request[4] \in {1, 3, 4}
        /\ Len(address) = 6

C8_Pre ==
    /\ Len(request) = 4
    /\ request[1] = 5
    /\ request[2] = 1
    /\ request[4] = 1
    /\ Len(address) = 6

\* C8: for a request read as version 5, CONNECT, ATYP 1 and the six bytes
\* a, b, c, d, hi, lo, there is exactly one connect of the session, to
\* a.b.c.d and port 256*hi+lo; once it has succeeded the server writes
\* (5, 0, 0, 1) followed by the address and the port, and neither copy loop
\* starts before that write.
C8_ConnectAndReply ==
    /\ Len(connects) <= 1
    /\ C8_Pre =>
          /\ \/ pc = "connect" /\ connects = <<>>
             \/ connects = <<[ip |-> SubSeq(address, 1, 4),
                              port |-> 256 * address[5] + address[6]]>>
          /\ (upstream = "connected" /\ pc # "write_reply") =>
                /\ wr # <<>>
                /\ wr[Len(wr)].bytes = <<5, 0, 0, 1>> \o address
          /\ (c2s # "idle" \/ s2c # "idle") =>
                /\ upstream = "connected"
                /\ wr[Len(wr)].bytes = <<5, 0, 0, 1>> \o address
    /\ pc = "write_reply" => (c2s = "idle" /\ s2c = "idle")

C8_Witness ==
    /\ C8_Pre
    /\ address = <<10, 0, 0, 1, 1, 187>>
    /\ connects = <<[ip |-> <<10, 0, 0, 1>>, port |-> 443]>>
    /\ pc = "join"
    /\ c2s = "read"
    /\ s2c = "read"

\* C9: when the connect fails, the server writes a reply (5, REP, 0, 1,
\* 0, 0, 0, 0, 0, 0) with REP not 0 and starts no copy loop.
C9_FailureReplied ==
    upstream = "failed" =>
        /\ wr # <<>>
        /\ \E rep \in 1..8 :
              wr[Len(wr)].bytes = <<5, rep, 0, 1, 0, 0, 0, 0, 0, 0>>
        /\ c2s = "idle" /\ s2c = "idle"

C10_Pre ==
    /\ reads >= 3
    /\ At(request, 0) = 5
    /\ At(request, 3) # 1

\* C10: a request header read with version 5 and an ATYP byte other than 1
\* (2, and 3 and 4 as well, which this code does not decode) causes no
\* connect, and the outcome is the same for every such value: the task ends
\* without reading further and without writing any reply.
C10_UnsupportedAtypCloses ==
    C10_Pre =>
        /\ pc = "done" /\ exit = "address_type"
        /\ address = <<>>
        /\ connects = <<>> /\ upstream = "none"
        /\ c2s = "idle" /\ s2c = "idle"
        /\ Len(wr) = 2 /\ wr[2].bytes = <<1, 0>>

C10_Witness ==
    /\ C10_Pre
    /\ request = <<5, 1, 0, 2>>
    /\ pc = "done"
    /\ connects = <<>>

\* no write on the client socket and no connect has failed
NoFault == (\A i \in 1..Len(wr) : wr[i].ok) /\ upstream # "failed"

\* C11: a request header read with version 5 and a command byte other than
\* CONNECT (1) is rejected: no connect is attempted and no copy loop starts.
C11_OnlyConnectCommand ==
    (/\ NoFault
     /\ reads >= 3 /\ At(request, 0) = 5 /\ At(request, 1) # 1
     /\ reads >= 4 => Len(address) = AddressSize) =>
        /\ connects = <<>>
        /\ upstream = "none"
        /\ c2s = "idle" /\ s2c = "idle"

\* C12: when the read of the header returned fewer than 4 bytes, or the read
\* of the address returned fewer than 6 bytes, the session aborts: no connect
\* is attempted and no success reply is written.
C12_TruncatedRequestAborts ==
    (NoFault /\ reads >= 3
             /\ (Len(request) < RequestSize
                    \/ (reads >= 4 /\ Len(address) < AddressSize))) =>
        /\ connects = <<>>
        /\ upstream = "none"
        /\ \A i \in 1..Len(wr) : Len(wr[i].bytes) = 2

\* C13: when the first read returns version 5 and fewer method bytes than
\* the message declares, the task does not panic and the connection is
\* closed: nothing is written, no username/password message is read, no
\* request is parsed.
C13_TruncatedNegotiationCloses ==
    (NoFault /\ reads = 1 /\ At(buf, 0) = 5 /\ Len(buf) < 2 + At(buf, 1)) =>
        /\ pc # "panicked"
        /\ wr = <<>>
        /\ pc # "read_auth"

\* C17: a request header read as version 5, CONNECT, ATYP 3 or 4 leads to a
\* connect: with every write successful, the task does not end, other than
\* by a read error, without one.
C17_DomainAndIPv6Connect ==
    (/\ Len(request) = RequestSize
     /\ request[1] = 5 /\ request[2] = 1 /\ request[4] \in {3, 4}
     /\ NoFault
     /\ Ended /\ exit # "read_error") =>
        Len(connects) = 1

\* C19: for every username/password message read, the index 2+U and the
\* slice bounds 3+U and 3+U+P computed on it lie within the 258-byte buffer.
C19_BoundsInBuffer ==
    reads >= 2 =>
        /\ 2 + At(buf, 1) < BufSize
        /\ 3 + At(buf, 1) <= BufSize
        /\ 3 + At(buf, 1) + At(buf, 2 + At(buf, 1)) <= BufSize

\* the negotiation message at the head of the stream s
NegMessage(s) == SubSeq(s, 1, Min(Len(s), 2 + At(s, 1)))

\* C20: the outcome does not depend on how the bytes are split across reads.
\* While only the first read has returned, buf \o cin is the stream the
\* client has sent; a read that returns the whole negotiation message selects
\* SelectMethod of that message, so every other split selects
\* UsernamePassword (and replies (5, 2)) exactly when that one does.
C20_SplitIndependent ==
    (reads = 1 /\ At(buf, 0) = 5) =>
        (method = "UsernamePassword"
            <=> SelectMethod(NegMessage(buf \o cin)) = "UsernamePassword")

IsPrefix(s, t) == Len(s) <= Len(t) /\ s = SubSeq(t, 1, Len(s))

\* the state make_proxy spawns the copy loops in, as the handshake reaches it
RelayInitReached ==
    /\ pc = "join" /\ c2s = "read" /\ s2c = "read" /\ copies = 0
    /\ auth_methods = {UsernamePassword} /\ users = [u \in {<<97>>} |-> <<120>>]
    /\ cin = <<>> /\ cstage = 4 /\ ~cclosed /\ uin = <<>> /\ ustage = 0 /\ ~uclosed
    /\ buf = <<1, 1, 97, 1, 120>> /\ request = <<5, 1, 0, IPv4>>
    /\ wr = <<W(<<5, 2>>, TRUE), W(<<1, 0>>, TRUE), W(Reply(address), TRUE)>>
    /\ connects = <<Target(address)>> /\ reads = 4 /\ lookups = 1

\* C14: while the relay runs, what has been written to the target is at all
\* times a prefix of what client_to_server has read from the client, and what
\* the relay has written to the client is a prefix of what server_to_client
\* has read from the target, also for a payload longer than the 1024-byte
\* buffer that is copied in several chunks; bytes of the client only go to the
\* target and bytes of the target only to the client, and the relay adds
\* nothing to the replies of the handshake.
C14_RelayCopiesPrefix ==
    /\ IsPrefix(up_wr, c2s_rd)
    /\ IsPrefix(cl_wr, s2c_rd)
    /\ \A i \in 1..Len(up_wr) : up_wr[i] < 100
    /\ \A i \in 1..Len(cl_wr) : cl_wr[i] >= 100
    /\ Len(wr) = 3

C14_Witness ==
    /\ up_wr = LongPayload(0)
    /\ Len(up_wr) > RelayBufSize
    /\ copies = 2

\* C16: make_proxy returns from the join only when both copy loops have
\* stopped, whichever stopped first and whatever stopped it; a copy loop
\* runs only while make_proxy waits at the join.
C16_JoinAfterBothStopped ==
    /\ (pc = "done" /\ exit = "joined") => (c2s = "stopped" /\ s2c = "stopped")
    /\ (c2s \in {"read", "write"} \/ s2c \in {"read", "write"}) => pc = "join"

C16_Witness ==
    /\ pc = "done" /\ exit = "joined"
    /\ up_wr # <<>> /\ cl_wr # <<>>

(***************************************************************************)
(* The store under concurrency.  add_user and remove_user take &mut self,  *)
(* so they run only while the Proxy is not yet shared (pc = "config");     *)
(* from start_proxy on, every spawned task holds a clone of the Arc and    *)
(* reaches the store through get_user alone.  The tasks run on the         *)
(* runtime's worker threads, so the steps of get_user of different tasks   *)
(* interleave: users.lock(), .get(&username).cloned(), and the drop of the *)
(* temporary MutexGuard at the end of the statement.                       *)
(***************************************************************************)
TaskNames == {<<97>>, <<98>>}

\* the socket operations of a task, at which it is suspended
IOPcs == {"read_auth", "write_auth"}

\* lines 146-149, 156-198: accepted and spawned, the task gets to the auth read
Task_Accept(t) ==
    /\ pc # "config"
    /\ tasks[t].pc = "idle"
    /\ tasks' = [tasks EXCEPT ![t].pc = "read_auth"]
    /\ UNCHANGED <<auth_methods, users, session, client, lock>>

\* lines 196-218: the auth read returns a username
Task_ReadAuth(t) ==
    /\ tasks[t].pc = "read_auth"
    /\ \E u \in TaskNames :
        tasks' = [tasks EXCEPT ![t].pc = "lock", ![t].name = u]
    /\ UNCHANGED <<auth_methods, users, session, client, lock>>

\* line 89: self.users.lock().unwrap(), which waits while the mutex is taken
GU_Lock(t) ==
    /\ tasks[t].pc = "lock"
    /\ lock = 0
    /\ lock' = t
    /\ tasks' = [tasks EXCEPT ![t].pc = "get"]
    /\ UNCHANGED <<auth_methods, users, session, client>>

\* a guard bound to a variable that lives until after the reply is written
PcAfterGet_Write == "write_auth"

\* line 89: the guard is a temporary, dropped at the end of the statement
PcAfterGet == "unlock"

\* line 89: .get(&username).cloned()
GU_Get(t) ==
    /\ tasks[t].pc = "get"
    /\ tasks' = [tasks EXCEPT ![t].pc = PcAfterGet,
                              ![t].seen = get_user(tasks[t].name)]
    /\ UNCHANGED <<auth_methods, users, session, client, lock>>

\* line 89: the MutexGuard is dropped
GU_Unlock(t) ==
    /\ tasks[t].pc = "unlock"
    /\ lock' = 0
    /\ tasks' = [tasks EXCEPT ![t].pc = "write_auth"]
    /\ UNCHANGED <<auth_methods, users, session, client>>

\* lines 230-284: the auth reply is written; what the task still holds is dropped
Task_WriteAuth(t) ==
    /\ tasks[t].pc = "write_auth"
    /\ lock' = IF lock = t THEN 0 ELSE lock
    /\ tasks' = [tasks EXCEPT ![t].pc = "done"]
    /\ UNCHANGED <<auth_methods, users, session, client>>

StoreNext ==
    \/ \E a \in Accounts : add_user(a[1], a[2])
    \/ \E a \in Accounts : remove_user(a[1])
    \/ start_proxy
    \/ \E t \in Tasks : Task_Accept(t)
    \/ \E t \in Tasks : Task_ReadAuth(t)
    \/ \E t \in Tasks : GU_Lock(t)
    \/ \E t \in Tasks : GU_Get(t)
    \/ \E t \in Tasks : GU_Unlock(t)
    \/ \E t \in Tasks : Task_WriteAuth(t)

StoreSpec == Init /\ [][StoreNext]_vars

C15_UpstreamCloseEndsTask ==
    (s2c = "read" /\ uclosed /\ uin = <<>>) ~> (pc = "done")
====
